---- MODULE Spec2Model ----
(***************************************************************************)
(* convert_pagexml.py: the eScriptorium -> Transkribus PAGE XML converter. *)
(*                                                                         *)
(* The converter never parses its input: it reads the file as text and     *)
(* rewrites it with str.replace and re.sub.  A document is modelled here   *)
(* as the text it is, cut into lexical atoms (a sequence of strings whose  *)
(* concatenation is the file's content).  The atoms are cut so that every  *)
(* regular expression of the source matches whole atoms:                   *)
(*   - every '>' is the atom ">" and no other atom holds a '>';            *)
(*   - '<' occurs only as the first character of a tag-opening atom        *)
(*     ("<TextRegion", "</Unicode", "<!-- c --", ...);                     *)
(*   - the '/' of a self-closing tag is the atom "/";                      *)
(*   - white space outside quoted values is made of the atoms " ", "\n";   *)
(*   - an attribute (name="value") is one atom, except the attribute with  *)
(*     a '>' in its value, which is  custom="a  >  b"  (three atoms).      *)
(* Each re.sub of the source is translated to the same pattern over atoms. *)
(***************************************************************************)
EXTENDS Integers, Sequences, FiniteSets, TLC

(***************************************************************************)
(* Lexical atoms                                                           *)
(***************************************************************************)
WS == {" ", "\n"}

NsDefault19 == "xmlns=\"http://schema.primaresearch.org/PAGE/gts/pagecontent/2019-07-15\""
NsDefault13 == "xmlns=\"http://schema.primaresearch.org/PAGE/gts/pagecontent/2013-07-15\""
NsPc19 == "xmlns:pc=\"http://schema.primaresearch.org/PAGE/gts/pagecontent/2019-07-15\""
NsPc13 == "xmlns:pc=\"http://schema.primaresearch.org/PAGE/gts/pagecontent/2013-07-15\""
NsXsi == "xmlns:xsi=\"http://www.w3.org/2001/XMLSchema-instance\""
XsiLoc19 == "xsi:schemaLocation=\"http://schema.primaresearch.org/PAGE/gts/pagecontent/2019-07-15 pagecontent.xsd\""
XsiLoc13 == "xsi:schemaLocation=\"http://schema.primaresearch.org/PAGE/gts/pagecontent/2013-07-15 pagecontent.xsd\""

AttrId == "id=\"r1\""
AttrDate19 == "custom=\"2019-07-15\""
AttrDate13 == "custom=\"2013-07-15\""
AttrGtOpen == "custom=\"a"
AttrGtClose == "b\""
AttrPoints == "points=\"10,10 20,20\""
RegionPoints == "points=\"0,0 100,0 100,100 0,100\""
LinePoints == "points=\"0,0 100,0 100,20 0,20\""
BaselinePoints == "points=\"0,10 100,10\""

Text19 == "2019-07-15"
Text13 == "2013-07-15"
Placeholder == "[text]"
CommentOpen == "<!-- c --"
XmlDecl == "<?xml version=\"1.0\"?"

\* Atoms matched by  xmlns(?::[^=]*)?="[^"]*"  and by  xsi:[^=]*="[^"]*"
XmlnsAtoms == {NsDefault19, NsDefault13, NsPc19, NsPc13, NsXsi}
XsiAtoms == {XsiLoc19, XsiLoc13}

\* Atoms whose first character is '<'
StartTags ==
  {"<PcGts", "<pc:PcGts", "<TextRegion", "<pc:TextRegion", "<TextLine",
   "<pc:TextLine", "<Unicode", "<pc:Unicode", "<Coords", "<Baseline"}
EndTags ==
  {"</PcGts", "</pc:PcGts", "</TextRegion", "</pc:TextRegion", "</TextLine",
   "</pc:TextLine", "</Unicode", "</pc:Unicode", "</Coords", "</Baseline"}
LtAtoms == StartTags \cup EndTags \cup {CommentOpen, XmlDecl}

(***************************************************************************)
(* Scanning helpers                                                        *)
(***************************************************************************)
At(s, i, a) == i >= 1 /\ i <= Len(s) /\ s[i] = a

\* The end of the white space run  \s*  that starts at i
RECURSIVE SkipWs(_, _)
SkipWs(s, i) ==
  IF i <= Len(s) /\ s[i] \in WS THEN SkipWs(s, i + 1) ELSE i

\* [^>]*>  from i: the position of the first '>' at or after i, 0 if none
RECURSIVE FirstGt(_, _)
FirstGt(s, i) ==
  IF i > Len(s) THEN 0 ELSE IF s[i] = ">" THEN i ELSE FirstGt(s, i + 1)

(***************************************************************************)
(* The inserted and rebuilt texts                                          *)
(***************************************************************************)
PcGtsClean == <<"<PcGts", " ", NsDefault13, ">">>
UnicodeFilled == <<"<Unicode", ">", Placeholder, "</Unicode", ">">>
RegionCoords == <<"\n", "<Coords", " ", RegionPoints, "/", ">">>
LineCoords == <<"\n", "<Coords", " ", LinePoints, "/", ">">>
LineBaseline == <<"\n", "<Baseline", " ", BaselinePoints, "/", ">">>

(***************************************************************************)
(* Step 1: content.replace('2019-07-15', '2013-07-15')                     *)
(***************************************************************************)
ReplaceVersionAtom(a) ==
  CASE a = NsDefault19 -> NsDefault13
    [] a = NsPc19 -> NsPc13
    [] a = XsiLoc19 -> XsiLoc13
    [] a = AttrDate19 -> AttrDate13
    [] a = Text19 -> Text13
    [] OTHER -> a

ReplaceVersion(s) == [i \in 1..Len(s) |-> ReplaceVersionAtom(s[i])]

(***************************************************************************)
(* The patterns of the re.sub calls.  MatchEnd(pat, s, i) is the position  *)
(* of the last atom of the match of pat that starts at i, 0 if pat does    *)
(* not match at i.                                                         *)
(***************************************************************************)
\* (<Tag[^>]*>)(?!\s*<Coords)
MatchNoCoords(tag, s, i) ==
  IF ~At(s, i, tag) THEN 0
  ELSE LET j == FirstGt(s, i + 1)
       IN IF j # 0 /\ ~At(s, SkipWs(s, j + 1), "<Coords") THEN j ELSE 0

\* (<TextLine[^>]*>\s*<Coords[^>]*/>)(?!\s*<Baseline)
MatchNoBaseline(s, i) ==
  IF ~At(s, i, "<TextLine") THEN 0
  ELSE LET j == FirstGt(s, i + 1)
           k == SkipWs(s, j + 1)
           m == FirstGt(s, k + 1)
       IN IF /\ j # 0
             /\ At(s, k, "<Coords")
             /\ m # 0
             /\ s[m - 1] = "/"
             /\ ~At(s, SkipWs(s, m + 1), "<Baseline")
          THEN m ELSE 0

\* <Unicode>\s*</Unicode> with at least minWs white space atoms, and with
\* no more than minWs of them when exact
MatchUnicodePair(s, i, minWs, exact) ==
  IF ~(At(s, i, "<Unicode") /\ At(s, i + 1, ">")) THEN 0
  ELSE LET j == SkipWs(s, i + 2)
       IN IF /\ At(s, j, "</Unicode")
             /\ At(s, j + 1, ">")
             /\ j - (i + 2) >= minWs
             /\ (exact => j - (i + 2) = minWs)
          THEN j + 1 ELSE 0

MatchEnd(pat, s, i) ==
  CASE pat = "xmlns" ->
         LET j == SkipWs(s, i)
         IN IF j <= Len(s) /\ s[j] \in XmlnsAtoms THEN j ELSE 0
    [] pat = "xsi" ->
         LET j == SkipWs(s, i)
         IN IF j <= Len(s) /\ s[j] \in XsiAtoms THEN j ELSE 0
    [] pat = "pcgts" ->
         IF At(s, i, "<PcGts") THEN FirstGt(s, i + 1) ELSE 0
    [] pat = "unicode_selfclosing" ->
         LET j == SkipWs(s, i + 1)
         IN IF At(s, i, "<Unicode") /\ At(s, j, "/") /\ At(s, j + 1, ">")
            THEN j + 1 ELSE 0
    [] pat = "unicode_empty" -> MatchUnicodePair(s, i, 0, TRUE)
    [] pat = "unicode_ws_star" -> MatchUnicodePair(s, i, 0, FALSE)
    [] pat = "unicode_ws_plus" -> MatchUnicodePair(s, i, 1, FALSE)
    [] pat = "region_coords" -> MatchNoCoords("<TextRegion", s, i)
    [] pat = "line_coords" -> MatchNoCoords("<TextLine", s, i)
    [] pat = "baseline" -> MatchNoBaseline(s, i)
    [] pat = "ws_gt" ->
         LET j == SkipWs(s, i)
         IN IF j > i /\ At(s, j, ">") THEN j ELSE 0
    [] pat = "gt_ws_lt" ->
         LET j == SkipWs(s, i + 1)
         IN IF At(s, i, ">") /\ j > i + 1 /\ j <= Len(s) /\ s[j] \in LtAtoms
            THEN j ELSE 0

\* The replacement of the match s[i..e] of pat
Replacement(pat, s, i, e) ==
  CASE pat \in {"xmlns", "xsi"} -> <<>>
    [] pat = "pcgts" -> PcGtsClean
    [] pat \in {"unicode_selfclosing", "unicode_empty", "unicode_ws_star",
                "unicode_ws_plus"} -> UnicodeFilled
    [] pat = "region_coords" -> SubSeq(s, i, e) \o RegionCoords
    [] pat \in {"line_coords"} -> SubSeq(s, i, e) \o LineCoords
    [] pat = "baseline" -> SubSeq(s, i, e) \o LineBaseline
    [] pat = "ws_gt" -> <<">">>
    [] pat = "gt_ws_lt" -> <<">", s[e]>>

\* re.sub(pat, repl, s): the leftmost non-overlapping matches, left to right
RECURSIVE ReSubFrom(_, _, _)
ReSubFrom(pat, s, i) ==
  IF i > Len(s) THEN <<>>
  ELSE LET e == MatchEnd(pat, s, i)
       IN IF e = 0 THEN <<s[i]>> \o ReSubFrom(pat, s, i + 1)
          ELSE Replacement(pat, s, i, e) \o ReSubFrom(pat, s, e + 1)

ReSub(pat, s) == ReSubFrom(pat, s, 1)

(***************************************************************************)
(* The transformations of convert_page_xml, in the order of the source     *)
(***************************************************************************)
CleanNamespaces(s) == ReSub("xsi", ReSub("xmlns", s))

RebuildPcGts(s) == ReSub("pcgts", s)

FixEmptyUnicode(s) ==
  ReSub("unicode_ws_plus",
    ReSub("unicode_ws_star",
      ReSub("unicode_empty",
        ReSub("unicode_selfclosing", s))))

AddRegionCoords(s) == ReSub("region_coords", s)

AddLineCoords(s) == ReSub("line_coords", s)

AddBaseline(s) == ReSub("baseline", s)

CleanWhitespace(s) == ReSub("gt_ws_lt", ReSub("ws_gt", s))

Transform(content) ==
  CleanWhitespace(
    AddBaseline(
      AddLineCoords(
        AddRegionCoords(
          FixEmptyUnicode(
            RebuildPcGts(
              CleanNamespaces(
                ReplaceVersion(content))))))))

(***************************************************************************)
(* The input documents: a root wrapper around up to MaxPieces fragments.   *)
(* Any text is a possible input of the converter, so the fragments hold    *)
(* complete elements, lone start and end tags (nesting, and documents      *)
(* that are not well-formed), comments, white space and text.              *)
(***************************************************************************)
MaxPieces == 2

Pieces ==
  { <<"<TextRegion", " ", AttrId, ">">>,
    <<"</TextRegion", ">">>,
    <<"<TextRegion", " ", AttrId, "/", ">">>,
    <<"<pc:TextRegion", ">", "</pc:TextRegion", ">">>,
    <<"<TextRegion", " ", AttrGtOpen, ">", AttrGtClose, ">">>,
    <<"<TextLine", " ", AttrId, " ", AttrDate19, ">">>,
    <<"</TextLine", ">">>,
    <<"<Coords", " ", AttrPoints, "/", ">">>,
    <<"<Coords", " ", AttrPoints, ">", "</Coords", ">">>,
    <<"<Baseline", " ", AttrPoints, "/", ">">>,
    <<"<Unicode", "/", ">">>,
    <<"<Unicode", ">", "</Unicode", ">">>,
    <<"<Unicode", ">", "\n", " ", "</Unicode", ">">>,
    <<"<Unicode", " ", ">", "</Unicode", ">">>,
    <<"<Unicode", ">", Text19, "</Unicode", ">">>,
    <<"<Unicode", ">", "a", " ", ">", "b", "</Unicode", ">">>,
    <<CommentOpen, ">">>,
    <<"\n", " ">> }

Roots ==
  { [pre |-> <<>>, post |-> <<>>],
    [pre |-> <<XmlDecl, ">", "\n", "<PcGts", " ", NsDefault19, " ", NsXsi,
               "\n", XsiLoc19, ">", "\n">>,
     post |-> <<"\n", "</PcGts", ">", "\n">>],
    [pre |-> <<"<pc:PcGts", " ", NsPc19, ">">>,
     post |-> <<"</pc:PcGts", ">">>],
    [pre |-> <<"<TextRegion", " ", AttrId, ">">>,
     post |-> <<"</TextRegion", ">">>],
    [pre |-> <<"<TextLine", ">">>,
     post |-> <<"</TextLine", ">">>] }

RECURSIVE Flatten(_)
Flatten(ps) == IF ps = <<>> THEN <<>> ELSE Head(ps) \o Flatten(Tail(ps))

PieceSeqs == UNION {[1..n -> Pieces] : n \in 0..MaxPieces}

Docs == {r.pre \o Flatten(ps) \o r.post : r \in Roots, ps \in PieceSeqs}

\* SAMPLE_XML of test_cli.py
SAMPLE_XML ==
  <<XmlDecl, ">", "\n", "<PcGts", " ", NsDefault19, ">", "\n", "</PcGts", ">">>

(***************************************************************************)
(* Reading a text as XML.  The claims speak of elements, children,         *)
(* attributes and text content, which the converter's text does not hold:  *)
(* they are what an XML parser (ElementTree, lxml, in the repository's     *)
(* test scripts) finds in it.  Lex reads a sequence of atoms as XML 1.0    *)
(* and gives the parser's events; ok is FALSE when the text is not         *)
(* well-formed.  Namespace prefixes are not resolved.                      *)
(***************************************************************************)
CompleteAttrs ==
  {NsDefault19, NsDefault13, NsPc19, NsPc13, NsXsi, XsiLoc19, XsiLoc13,
   AttrId, AttrDate19, AttrDate13, AttrPoints, RegionPoints, LinePoints,
   BaselinePoints}

\* Atoms that may stand inside a quoted attribute value: no '"', no '<'
QuoteInner == {">", "/", " ", "\n", "a", "b", Text19, Text13, Placeholder}

AttrName(a) ==
  CASE a \in {NsDefault19, NsDefault13} -> "xmlns"
    [] a \in {NsPc19, NsPc13} -> "xmlns:pc"
    [] a = NsXsi -> "xmlns:xsi"
    [] a \in {XsiLoc19, XsiLoc13} -> "xsi:schemaLocation"
    [] a = AttrId -> "id"
    [] a \in {AttrDate19, AttrDate13, AttrGtOpen} -> "custom"
    [] a \in {AttrPoints, RegionPoints, LinePoints, BaselinePoints} -> "points"
    [] OTHER -> "?"

\* An attribute is the sequence of the atoms that write it
AttrNames(attrs) == {AttrName(attrs[n][1]) : n \in 1..Len(attrs)}

\* The closing quote of the value opened before i, 0 if the value is broken
RECURSIVE QuoteEnd(_, _)
QuoteEnd(s, i) ==
  IF i > Len(s) THEN 0
  ELSE IF s[i] = AttrGtClose THEN i
  ELSE IF s[i] \in QuoteInner THEN QuoteEnd(s, i + 1)
  ELSE 0

NoTag == [ok |-> FALSE, end |-> 0, attrs |-> <<>>, empty |-> FALSE]

\* The rest of a start tag from i:  (S Attribute)* S? '/'? '>'
RECURSIVE ScanTag(_, _, _)
ScanTag(s, i, attrs) ==
  LET j == SkipWs(s, i)
  IN IF At(s, j, ">")
       THEN [ok |-> TRUE, end |-> j, attrs |-> attrs, empty |-> FALSE]
     ELSE IF At(s, j, "/") /\ At(s, j + 1, ">")
       THEN [ok |-> TRUE, end |-> j + 1, attrs |-> attrs, empty |-> TRUE]
     ELSE IF j = i \/ j > Len(s) \/ AttrName(s[j]) \in AttrNames(attrs)
       THEN NoTag
     ELSE IF s[j] \in CompleteAttrs
       THEN ScanTag(s, j + 1, Append(attrs, <<s[j]>>))
     ELSE IF s[j] = AttrGtOpen /\ QuoteEnd(s, j + 1) # 0
       THEN ScanTag(s, QuoteEnd(s, j + 1) + 1,
                    Append(attrs, SubSeq(s, j, QuoteEnd(s, j + 1))))
     ELSE NoTag

EndTagOf(a) ==
  CASE a = "<PcGts" -> "</PcGts"
    [] a = "<pc:PcGts" -> "</pc:PcGts"
    [] a = "<TextRegion" -> "</TextRegion"
    [] a = "<pc:TextRegion" -> "</pc:TextRegion"
    [] a = "<TextLine" -> "</TextLine"
    [] a = "<pc:TextLine" -> "</pc:TextLine"
    [] a = "<Unicode" -> "</Unicode"
    [] a = "<pc:Unicode" -> "</pc:Unicode"
    [] a = "<Coords" -> "</Coords"
    [] a = "<Baseline" -> "</Baseline"

\* elem.tag.endswith(name): the name without its prefix
LocalName(a) ==
  CASE a \in {"<PcGts", "<pc:PcGts"} -> "PcGts"
    [] a \in {"<TextRegion", "<pc:TextRegion"} -> "TextRegion"
    [] a \in {"<TextLine", "<pc:TextLine"} -> "TextLine"
    [] a \in {"<Unicode", "<pc:Unicode"} -> "Unicode"
    [] a = "<Coords" -> "Coords"
    [] a = "<Baseline" -> "Baseline"
    [] OTHER -> "?"

NotXml == [ok |-> FALSE, ev |-> <<>>]

Event(k, a, attrs, depth) ==
  [k |-> k, name |-> a, attrs |-> attrs, depth |-> depth]

Cons(e, r) == IF r.ok THEN [ok |-> TRUE, ev |-> <<e>> \o r.ev] ELSE NotXml

\* The events of s from i on; stack holds the open elements, innermost
\* first, and seenRoot says that the root element has started
RECURSIVE Lex(_, _, _, _)
Lex(s, i, stack, seenRoot) ==
  IF i > Len(s) THEN [ok |-> stack = <<>> /\ seenRoot, ev |-> <<>>]
  ELSE IF s[i] \in StartTags THEN
    LET t == ScanTag(s, i + 1, <<>>)
    IN IF ~t.ok \/ (stack = <<>> /\ seenRoot) THEN NotXml
       ELSE IF t.empty
         THEN Cons(Event("empty", s[i], t.attrs, Len(stack)),
                   Lex(s, t.end + 1, stack, TRUE))
       ELSE Cons(Event("start", s[i], t.attrs, Len(stack)),
                 Lex(s, t.end + 1, <<s[i]>> \o stack, TRUE))
  ELSE IF s[i] \in EndTags THEN
    LET j == SkipWs(s, i + 1)
    IN IF At(s, j, ">") /\ stack # <<>> /\ EndTagOf(Head(stack)) = s[i]
         THEN Cons(Event("end", Head(stack), <<>>, Len(stack) - 1),
                   Lex(s, j + 1, Tail(stack), seenRoot))
       ELSE NotXml
  ELSE IF s[i] = XmlDecl THEN
    IF i = 1 /\ At(s, 2, ">") THEN Lex(s, 3, stack, seenRoot) ELSE NotXml
  ELSE IF s[i] = CommentOpen THEN
    IF At(s, i + 1, ">")
      THEN Cons(Event("comment", s[i], <<>>, Len(stack)),
                Lex(s, i + 2, stack, seenRoot))
    ELSE NotXml
  ELSE IF stack = <<>> /\ s[i] \notin WS THEN NotXml
  ELSE Cons(Event("text", s[i], <<>>, Len(stack)),
            Lex(s, i + 1, stack, seenRoot))

Parse(s) == Lex(s, 1, <<>>, FALSE)

\* ET.fromstring(s) raises no ParseError
WellFormed(s) == Parse(s).ok

\* The elements of a parsed document, as positions in its events
Elements(ev) == {e \in 1..Len(ev) : ev[e].k \in {"start", "empty"}}

ElementsNamed(ev, local) ==
  {e \in Elements(ev) : LocalName(ev[e].name) = local}

\* The position of the end tag of element e (e itself when it is empty)
EndOf(ev, e) ==
  IF ev[e].k = "empty" THEN e
  ELSE CHOOSE c \in e + 1..Len(ev) :
         /\ ev[c].k = "end" /\ ev[c].depth = ev[e].depth
         /\ \A d \in e + 1..c - 1 :
              ~(ev[d].k = "end" /\ ev[d].depth = ev[e].depth)

\* for child in elem: the immediate child elements of e
Children(ev, e) ==
  {c \in Elements(ev) : c > e /\ c < EndOf(ev, e)
                         /\ ev[c].depth = ev[e].depth + 1}

\* any(child.tag.endswith(local) for child in elem)
HasChild(ev, e, local) ==
  \E c \in Children(ev, e) : LocalName(ev[c].name) = local

CountChildren(ev, e, local) ==
  Cardinality({c \in Children(ev, e) : LocalName(ev[c].name) = local})

\* The atoms of the text directly inside e
TextOf(ev, e) ==
  LET idx == {c \in e + 1..EndOf(ev, e) - 1 :
                ev[c].k = "text" /\ ev[c].depth = ev[e].depth + 1}
  IN {ev[c].name : c \in idx}

\* not (elem.text or '').strip()
BlankText(ev, e) == TextOf(ev, e) \subseteq WS

(***************************************************************************)
(* The file system and the console                                         *)
(*   files        path -> [mode, content]; a path is [parent, stem,        *)
(*                suffix] as pathlib.Path splits it, mode "denied" is a    *)
(*                file that open() refuses with PermissionError            *)
(*   dirs         the directories that exist                               *)
(*   disk_full    the device takes no more data: f.write raises OSError    *)
(*   stdout       the messages printed so far                              *)
(*   pc           where the running script stands                          *)
(*   argv         the command line main is started with                    *)
(*   args         the command line as parse_args has read it               *)
(*   xml_files    process_directory's list of the files it found           *)
(*   i            how many of xml_files the loop has been through          *)
(*   success_count  process_directory's counter                            *)
(***************************************************************************)
VARIABLES files, dirs, disk_full, stdout, pc, argv, args, xml_files, i,
          success_count

vars ==
  <<files, dirs, disk_full, stdout, pc, argv, args, xml_files, i,
    success_count>>

Path(parent, stem, suffix) ==
  [parent |-> parent, stem |-> stem, suffix |-> suffix]

File(mode, content) == [mode |-> mode, content |-> content]

NoFiles == [p \in {} |-> File("rw", <<>>)]

\* input_path.parent / f"{input_path.stem}_transkribus{input_path.suffix}"
OutputName(input_path) ==
  Path(input_path.parent, input_path.stem \o "_transkribus", input_path.suffix)

Message(msg, input_file, output_file) ==
  [msg |-> msg, input_file |-> input_file, output_file |-> output_file]

Success == "Successfully converted"

\* open(input_file, 'r') and f.read(): the content, or the exception raised
ReadError(fs, input_file) ==
  IF input_file \notin DOMAIN fs THEN "FileNotFoundError"
  ELSE IF fs[input_file].mode = "denied" THEN "PermissionError"
  ELSE "none"

\* open(output_file, 'w'): the exception raised, if any
OpenError(fs, ds, output_file) ==
  IF output_file.parent \notin ds THEN "FileNotFoundError"
  ELSE IF output_file \in DOMAIN fs /\ fs[output_file].mode = "denied"
    THEN "PermissionError"
  ELSE "none"

ErrorMessage(exc) ==
  CASE exc = "FileNotFoundError" -> "Error: File not found"
    [] exc = "PermissionError" -> "Error: Permission denied"
    [] OTHER -> "Error converting file"

(***************************************************************************)
(* convert_page_xml(input_file, output_file): output is <<>> for None and  *)
(* <<path>> for a path.  The result holds the file system after the call,  *)
(* the value returned and the message printed.                             *)
(***************************************************************************)
Failed(exc, fs, input_file) ==
  [files |-> fs, ok |-> FALSE,
   print |-> Message(ErrorMessage(exc), input_file, <<>>)]

\* with open(output_file, 'w') as f: f.write(content), and the return
WriteOutput(fs, ds, full, input_file, output_file, content) ==
  IF OpenError(fs, ds, output_file) # "none"
    THEN Failed(OpenError(fs, ds, output_file), fs, input_file)
  ELSE IF full /\ content # <<>>
    \* open(.., 'w') has created or truncated the file
    THEN Failed("OSError", (output_file :> File("rw", <<>>)) @@ fs, input_file)
  ELSE [files |-> (output_file :> File("rw", content)) @@ fs,
        ok |-> TRUE,
        print |-> Message(Success, input_file, <<output_file>>)]

\* A converter that parses its input and fails on text that is not
\* well-formed: not what the source does
ConvertParsed(fs, ds, full, input_file, output) ==
  IF ReadError(fs, input_file) # "none"
    THEN Failed(ReadError(fs, input_file), fs, input_file)
  ELSE IF ~WellFormed(fs[input_file].content)
    THEN Failed("ParseError", fs, input_file)
  ELSE WriteOutput(fs, ds, full, input_file,
                   IF output = <<>> THEN OutputName(input_file) ELSE output[1],
                   Transform(fs[input_file].content))

convert_page_xml(fs, ds, full, input_file, output) ==
  IF ReadError(fs, input_file) # "none"
    THEN Failed(ReadError(fs, input_file), fs, input_file)
  ELSE WriteOutput(fs, ds, full, input_file,
                   IF output = <<>> THEN OutputName(input_file) ELSE output[1],
                   Transform(fs[input_file].content))

(***************************************************************************)
(* Converting one file, and converting the result again                    *)
(***************************************************************************)
InputPage == Path("in", "page1", ".xml")
Output1 == OutputName(InputPage)
Output2 == OutputName(Output1)

NoArgs ==
  [file |-> <<>>, directory |-> <<>>, output |-> <<>>, verbose |-> FALSE]

InitConvert ==
  /\ pc = "first"
  /\ dirs = {"in"}
  /\ disk_full \in BOOLEAN
  /\ files \in {NoFiles, InputPage :> File("denied", SAMPLE_XML)}
                 \cup {InputPage :> File("rw", d) : d \in Docs}
  /\ stdout = <<>>
  /\ argv = NoArgs
  /\ args = NoArgs
  /\ xml_files = <<>>
  /\ i = 0
  /\ success_count = 0

Call(input_file, output) ==
  LET returns(r) == /\ files' = r.files
                    /\ stdout' = Append(stdout, r.print)
  IN returns(convert_page_xml(files, dirs, disk_full, input_file, output))

ConvertFirst ==
  /\ pc = "first"
  /\ Call(InputPage, <<>>)
  /\ pc' = "second"
  /\ UNCHANGED <<dirs, disk_full, argv, args, xml_files, i, success_count>>

ConvertSecond ==
  /\ pc = "second"
  /\ Call(Output1, <<>>)
  /\ pc' = "done"
  /\ UNCHANGED <<dirs, disk_full, argv, args, xml_files, i, success_count>>

NextConvert == ConvertFirst \/ ConvertSecond

Spec == InitConvert /\ [][NextConvert]_vars

(***************************************************************************)
(* What the claims speak of, in the run that converts InputPage to Output1 *)
(* and Output1 to Output2                                                  *)
(***************************************************************************)
Returned(n) == n <= Len(stdout) /\ stdout[n].msg = Success

\* The first call has read a well-formed document and written a
\* well-formed one
ConvertedXml ==
  /\ Returned(1)
  /\ WellFormed(files[InputPage].content)
  /\ WellFormed(files[Output1].content)

InputXml == Parse(files[InputPage].content).ev
OutputXml == Parse(files[Output1].content).ev

\* C1: after convert_page_xml, no TextRegion element lacks a Coords child
\* among its immediate children (nested, self-closing and prefixed
\* TextRegions included).
C1_TextRegionHasCoords ==
  ConvertedXml =>
    \A e \in ElementsNamed(OutputXml, "TextRegion") :
      HasChild(OutputXml, e, "Coords")

\* C2: after convert_page_xml, every TextLine element has both a Coords
\* child and a Baseline child, whatever the form of its Coords.
C2_TextLineHasCoordsAndBaseline ==
  ConvertedXml =>
    \A e \in ElementsNamed(OutputXml, "TextLine") :
      HasChild(OutputXml, e, "Coords") /\ HasChild(OutputXml, e, "Baseline")

\* C3: after convert_page_xml, no Unicode element has empty or
\* whitespace-only text content, whatever attributes or prefix its tag has.
C3_NoBlankUnicode ==
  ConvertedXml =>
    \A e \in ElementsNamed(OutputXml, "Unicode") : ~BlankText(OutputXml, e)

\* The namespace declarations among the attributes of a tag
NamespaceDecls(attrs) ==
  {attrs[n] : n \in {m \in 1..Len(attrs) :
     AttrName(attrs[m][1]) \in {"xmlns", "xmlns:pc", "xmlns:xsi"}}}

RootOf(ev) == ev[CHOOSE e \in Elements(ev) : \A f \in Elements(ev) : e <= f]

\* C4: the output of convert_page_xml has exactly one namespace declaration
\* on the root element, that of the 2013-07-15 namespace, whatever
\* prefixes and declarations the input had.
C4_OneCanonicalNamespace ==
  (ConvertedXml /\ LocalName(RootOf(InputXml).name) = "PcGts") =>
    NamespaceDecls(RootOf(OutputXml).attrs) \in {{<<NsDefault13>>}, {<<NsPc13>>}}

\* A text without its white space atoms
NoWs(s) == SelectSeq(s, LAMBDA a : a \notin WS)

\* C5: converting the output of a conversion again gives the same document
\* up to white space: the second pass inserts and fills nothing more.
C5_Idempotent ==
  (ConvertedXml /\ Returned(2)) =>
    NoWs(files[Output2].content) = NoWs(files[Output1].content)

\* The attributes of a tag that are no namespace attributes (xmlns, xsi:)
OwnAttrs(attrs) ==
  {attrs[n] : n \in {m \in 1..Len(attrs) :
     AttrName(attrs[m][1]) \in {"id", "custom", "points"}}}

Described(ev, e) == <<LocalName(ev[e].name), OwnAttrs(ev[e].attrs)>>

CountAlike(ev, d) ==
  Cardinality({e \in Elements(ev) : Described(ev, e) = d})

Layout == {"TextRegion", "TextLine", "Unicode"}

LayoutKinds(ev) ==
  {Described(ev, e) : e \in {f \in Elements(ev) : LocalName(ev[f].name) \in Layout}}

\* C6: the TextRegion, TextLine and Unicode elements, with the names and
\* values of their non-namespace attributes, are the same in number before
\* and after convert_page_xml.
C6_LayoutPreserved ==
  ConvertedXml =>
    \A d \in LayoutKinds(InputXml) \cup LayoutKinds(OutputXml) :
      CountAlike(InputXml, d) = CountAlike(OutputXml, d)

\* The first call could read its input and write its output
InputReadable == InputPage \in DOMAIN files /\ files[InputPage].mode = "rw"

WriteFailed == disk_full /\ Transform(files[InputPage].content) # <<>>

PathOf(text) ==
  CASE text = "in/page1.xml" -> InputPage
    [] text \in {"outdir", "outdir/"} -> Path(".", "outdir", "")
    [] text = "out.xml" -> Path(".", "out", ".xml")
    [] text = "nodir/out.xml" -> Path("nodir", "out", ".xml")
    [] text = "_auto" -> Path(".", "_auto", "")
    [] text = "in" -> Path(".", "in", "")

\* text.endswith(os.path.sep) or text.endswith("/")
EndsWithSep(text) == text = "outdir/"

\* str(path), the name a directory goes by
DirOf(p) ==
  IF p.parent = "." THEN p.stem \o p.suffix
  ELSE p.parent \o "/" \o p.stem \o p.suffix

\* directory / f"{stem}{suffix}"
Inside(directory, stem, suffix) == Path(DirOf(directory), stem, suffix)

IsDir(ds, p) == DirOf(p) \in ds

Exists(fs, ds, p) == p \in DOMAIN fs \/ IsDir(ds, p)

\* path.mkdir(parents=True, exist_ok=True) raises FileExistsError when the
\* path is a file
MkdirFails(fs, p) == p \in DOMAIN fs

Mkdir(ds, p) ==
  ds \cup {DirOf(p)} \cup (IF p.parent = "." THEN {} ELSE {p.parent})

(***************************************************************************)
(* parse_args: -o without a value is the constant "_auto"                  *)
(***************************************************************************)
parse_args(av) ==
  [file |-> av.file,
   directory |-> av.directory,
   output |-> IF av.output = <<>> THEN <<>>
              ELSE IF Len(av.output) = 1 THEN <<"_auto">>
              ELSE <<av.output[2]>>,
   verbose |-> av.verbose]

Note(msg) == [msg |-> msg]

Verbose(a, msg) == IF a.verbose THEN <<Note(msg)>> ELSE <<>>

\* What main does with -o PATH: the directory it makes (if any), what it
\* prints with -v, and whether PATH is taken as a directory
OutputPath(fs, ds, a) ==
  LET text == a.output[1]
      out_path == PathOf(text)
      made(msg) == [crash |-> MkdirFails(fs, out_path),
                    dirs |-> Mkdir(ds, out_path),
                    print |-> Verbose(a, msg),
                    directory |-> TRUE]
  IN IF Exists(fs, ds, out_path) /\ IsDir(ds, out_path)
       THEN [crash |-> FALSE, dirs |-> ds,
             print |-> Verbose(a, "Using existing output directory"),
             directory |-> TRUE]
     ELSE IF EndsWithSep(text)
       THEN made("Created output directory")
     ELSE IF ~Exists(fs, ds, out_path) /\ out_path.suffix = ""
       THEN made("Created output directory (no-extension heuristic)")
     ELSE [crash |-> FALSE, dirs |-> ds, print |-> <<>>, directory |-> FALSE]

Outcome(fs, ds, print, next) ==
  [files |-> fs, dirs |-> ds, print |-> print, pc |-> next]

\* main, if args.file: what is done before convert_page_xml is called, and
\* the output it is called with (<<>> is None)
FilePlan(fs, ds, a) ==
  LET input_path == PathOf(a.file[1])
      auto == OutputName(input_path)
      plan(next, ds2, print, output) ==
        [next |-> next, dirs |-> ds2, print |-> print, output |-> output]
  IN IF ~Exists(fs, ds, input_path)
       THEN plan("done", ds, <<Note("Error: input file does not exist")>>, <<>>)
     ELSE IF a.output = <<>> THEN plan("convert", ds, <<>>, <<>>)
     ELSE IF a.output = <<"_auto">> THEN plan("convert", ds, <<>>, <<auto>>)
     ELSE LET o == OutputPath(fs, ds, a)
              out_path == PathOf(a.output[1])
          IN IF o.crash THEN plan("crashed", ds, <<>>, <<>>)
             ELSE IF o.directory
               THEN plan("convert", o.dirs, o.print,
                         <<Inside(out_path, auto.stem, auto.suffix)>>)
             ELSE plan("convert", o.dirs, o.print, <<out_path>>)

main_file(fs, ds, full, a) ==
  LET done(p, r) == Outcome(r.files, p.dirs, p.print \o <<r.print>>, "done")
      run(p) ==
        IF p.next = "convert"
          THEN done(p, convert_page_xml(fs, p.dirs, full, PathOf(a.file[1]),
                                        p.output))
        ELSE Outcome(fs, ds, p.print, p.next)
  IN run(FilePlan(fs, ds, a))

\* main, if args.directory: up to the call of process_directory
main_directory(fs, ds, a) ==
  LET input_dir == PathOf(a.directory[1])
  IN IF ~Exists(fs, ds, input_dir) \/ ~IsDir(ds, input_dir)
       THEN Outcome(fs, ds,
              <<Note("Error: input directory does not exist or is not a directory")>>,
              "done")
     ELSE IF a.output = <<>> \/ a.output = <<"_auto">>
       THEN Outcome(fs, ds, <<>>, "process_directory")
     ELSE LET o == OutputPath(fs, ds, a)
          IN IF o.crash THEN Outcome(fs, ds, <<>>, "crashed")
             ELSE Outcome(fs, o.dirs, o.print, "process_directory")

\* The output_dir main passes to process_directory: <<>> is None
OutputDirArg(a) ==
  IF a.output = <<>> \/ a.output = <<"_auto">> THEN <<>> ELSE a.output

\* output_path of process_directory
BatchOutputPath(a) ==
  IF OutputDirArg(a) # <<>> THEN PathOf(OutputDirArg(a)[1])
  ELSE Inside(PathOf(a.directory[1]), "transkribus_converted", "")

\* input_path.glob("*.xml")
Glob(fs, input_path) ==
  {p \in DOMAIN fs : p.parent = DirOf(input_path) /\ p.suffix = ".xml"}

\* The orders in which list(glob) may give a set of paths
Orders(S) ==
  {xs \in [1..Cardinality(S) -> S] :
     \A m, n \in 1..Cardinality(S) : xs[m] = xs[n] => m = n}

Processed(count, total) ==
  [msg |-> "Processed", success_count |-> count, total |-> total]

\* if convert_page_xml(..): success_count += 1
Counted(count, ok) == IF ok THEN count + 1 ELSE count

\* A loop that a failed conversion ends: not what the source does
StopAtFailure(xs, n, ok) == IF ok THEN n + 1 ELSE Len(xs)

\* for xml_file in xml_files: the loop goes to the next file whatever the
\* conversion returned
NextIndex(xs, n, ok) == n + 1

(***************************************************************************)
(* The script: main(argv), and process_directory with its loop             *)
(***************************************************************************)
Main ==
  /\ pc = "main"
  /\ LET run(a) ==
           IF a.file = <<>> /\ a.directory = <<>>
             THEN Outcome(files, dirs, <<Note("welcome_message")>>, "done")
           ELSE IF a.file # <<>>
             THEN main_file(files, dirs, disk_full, a)
           ELSE main_directory(files, dirs, a)
         step(a, r) ==
           /\ args' = a
           /\ files' = r.files
           /\ dirs' = r.dirs
           /\ stdout' = stdout \o r.print
           /\ pc' = r.pc
     IN step(parse_args(argv), run(parse_args(argv)))
  /\ UNCHANGED <<disk_full, argv, xml_files, i, success_count>>

\* process_directory up to its loop
ProcessDirectoryStart ==
  /\ pc = "process_directory"
  /\ LET input_path == PathOf(args.directory[1])
         output_path == BatchOutputPath(args)
     IN IF ~Exists(files, dirs, input_path)
          THEN /\ stdout' = Append(stdout, Note("Input directory does not exist"))
               /\ pc' = "done"
               /\ UNCHANGED <<dirs, xml_files>>
        ELSE IF MkdirFails(files, output_path)
          THEN /\ pc' = "crashed"
               /\ UNCHANGED <<dirs, xml_files, stdout>>
        ELSE /\ dirs' = Mkdir(dirs, output_path)
             /\ xml_files' \in Orders(Glob(files, input_path))
             /\ IF Glob(files, input_path) = {}
                  THEN /\ stdout' = Append(stdout, Note("No XML files found"))
                       /\ pc' = "done"
                  ELSE /\ stdout' = stdout
                       /\ pc' = "loop"
  /\ i' = 0
  /\ success_count' = 0
  /\ UNCHANGED <<files, disk_full, argv, args>>

\* One turn of the loop over xml_files
ProcessDirectoryConvert ==
  /\ pc = "loop"
  /\ i < Len(xml_files)
  /\ LET xml_file == xml_files[i + 1]
         output_file ==
           Inside(BatchOutputPath(args), xml_file.stem \o "_transkribus", ".xml")
         step(r) ==
           /\ files' = r.files
           /\ stdout' = Append(stdout, r.print)
           /\ success_count' = Counted(success_count, r.ok)
           /\ i' = NextIndex(xml_files, i, r.ok)
     IN step(convert_page_xml(files, dirs, disk_full, xml_file,
                              <<output_file>>))
  /\ UNCHANGED <<dirs, disk_full, pc, argv, args, xml_files>>

\* After the loop
ProcessDirectoryFinish ==
  /\ pc = "loop"
  /\ i >= Len(xml_files)
  /\ stdout' = Append(stdout, Processed(success_count, Len(xml_files)))
  /\ pc' = "done"
  /\ UNCHANGED <<files, dirs, disk_full, argv, args, xml_files, i,
                 success_count>>

(***************************************************************************)
(* The command lines and file systems the script is started with           *)
(***************************************************************************)
MaxFiles == 2

PageN(n) == Path("in", "p" \o ToString(n), ".xml")

\* The *.xml files the input directory may hold, one of them named like
\* the output of another
BatchCandidates == {PageN(n) : n \in 1..MaxFiles} \cup {OutputName(PageN(1))}

Notes == Path("in", "notes", ".txt")

OutputOptions(values) == {<<>>, <<"-o">>} \cup {<<"-o", v>> : v \in values}

\* The files of present, those of denied unreadable and unwritable
FilesOf(present, denied) ==
  [p \in present |-> File(IF p \in denied THEN "denied" ELSE "rw", SAMPLE_XML)]

InitWelcome ==
  /\ argv = NoArgs
  /\ dirs = {".", "in"}
  /\ files = NoFiles

InitFile ==
  /\ argv \in [file : {<<"in/page1.xml">>},
               directory : {<<>>},
               output : OutputOptions({"outdir", "outdir/", "out.xml",
                                       "nodir/out.xml", "_auto"}),
               verbose : BOOLEAN]
  /\ dirs \in {{".", "in"} \cup ds : ds \in SUBSET {"outdir", "_auto"}}
  /\ \E present \in SUBSET {InputPage, PathOf("outdir"), PathOf("out.xml")} :
       \E denied \in SUBSET (present \ {PathOf("outdir")}) :
         /\ PathOf("outdir") \in present => "outdir" \notin dirs
         /\ files = FilesOf(present, denied)

InitDirectory ==
  /\ argv \in [file : {<<>>},
               directory : {<<"in">>},
               output : OutputOptions({"outdir", "outdir/", "in"}),
               verbose : BOOLEAN]
  /\ dirs \in {{"."}, {".", "in"}, {".", "in", "outdir"}}
  /\ \E present \in SUBSET (BatchCandidates \cup {Notes, PathOf("outdir")}) :
       \E denied \in SUBSET (present \cap BatchCandidates) :
         /\ "in" \notin dirs => present \subseteq {PathOf("outdir")}
         /\ PathOf("outdir") \in present => "outdir" \notin dirs
         /\ files = FilesOf(present, denied)

InitCli ==
  /\ pc = "main"
  /\ disk_full \in BOOLEAN
  /\ InitWelcome \/ InitFile \/ InitDirectory
  /\ stdout = <<>>
  /\ args = NoArgs
  /\ xml_files = <<>>
  /\ i = 0
  /\ success_count = 0

NextCli ==
  \/ Main
  \/ ProcessDirectoryStart
  \/ ProcessDirectoryConvert
  \/ ProcessDirectoryFinish

SpecCli == InitCli /\ [][NextCli]_vars

(***************************************************************************)
(* What the claims speak of, in the runs of the script                     *)
(***************************************************************************)
\* The messages of the calls of convert_page_xml, in the order of the calls
Attempts == SelectSeq(stdout, LAMBDA m : "input_file" \in DOMAIN m)

Succeeded == {k \in 1..Len(Attempts) : Attempts[k].msg = Success}

\* <output_dir>/<stem>_transkribus.xml
BatchOutput(xml_file) ==
  Inside(BatchOutputPath(args), xml_file.stem \o "_transkribus", ".xml")

BatchDone == pc = "done" /\ xml_files # <<>>

\* C8: when process_directory has finished, every file it enumerated was
\* given to convert_page_xml exactly once, a failed conversion was followed
\* by the conversions of the files after it, every conversion that returned
\* True wrote <output_dir>/<stem>_transkribus.xml, and the count reported is
\* the number of conversions that returned True.
C8_BatchAttemptsEveryFileOnce ==
  BatchDone =>
    /\ Len(Attempts) = Len(xml_files)
    /\ \A k \in 1..Len(xml_files) :
         /\ Attempts[k].input_file = xml_files[k]
         /\ k \in Succeeded =>
              /\ Attempts[k].output_file = <<BatchOutput(xml_files[k])>>
              /\ BatchOutput(xml_files[k]) \in DOMAIN files
    /\ success_count = Cardinality(Succeeded)
    /\ stdout[Len(stdout)] = Processed(Cardinality(Succeeded), Len(xml_files))

\* A batch in which a conversion failed and a later one succeeded
C8_Witness ==
  /\ BatchDone
  /\ \E k, l \in 1..Len(Attempts) :
       k < l /\ k \notin Succeeded /\ l \in Succeeded

\* The files a step creates or changes
Written ==
  {p \in DOMAIN files' : p \notin DOMAIN files \/ files'[p] # files[p]}

\* The path C9 gives for the command line argv, in the file system of the
\* state main starts in
ClaimedOutput ==
  LET auto == OutputName(PathOf(argv.file[1]))
      D == PathOf(argv.output[2])
  IN IF Len(argv.output) = 1 THEN auto
     ELSE IF \/ IsDir(dirs, D)
             \/ EndsWithSep(argv.output[2])
             \/ ~Exists(files, dirs, D) /\ D.suffix = ""
       THEN Inside(D, auto.stem, auto.suffix)
     ELSE D

\* C9: main with -f F, F existing, and -o writes no file but the one the
\* rules name: F.parent/<stem>_transkribus<suffix> for -o without a value,
\* D/<stem>_transkribus<suffix> for -o D with D an existing directory, ending
\* with a separator, or not existing and without extension, and P for any
\* other -o P.
C9_SingleFileOutputPath ==
  [][(/\ pc = "main"
      /\ argv.file # <<>>
      /\ argv.output # <<>>
      /\ Exists(files, dirs, PathOf(argv.file[1])))
       => Written \subseteq {ClaimedOutput}]_vars

\* C10: main with -f F and without -o writes no file.
C10_NoOutputWithoutOption ==
  [][(pc = "main" /\ argv.file # <<>> /\ argv.output = <<>>)
       => Written = {}]_vars

(***************************************************************************)
(* Elements of the input and of the output of the first call, paired in    *)
(* document order                                                          *)
(***************************************************************************)
\* for elem in root.iter(): the elements with a local name of names, in
\* document order
InOrder(ev, names) ==
  SelectSeq([k \in 1..Len(ev) |-> k],
            LAMBDA e : e \in Elements(ev) /\ LocalName(ev[e].name) \in names)

\* The conversion has kept the number of elements named so, and the n-th
\* of the output is the n-th of the input
Paired(names) ==
  /\ ConvertedXml
  /\ Len(InOrder(InputXml, names)) = Len(InOrder(OutputXml, names))

Boxes == {"TextRegion", "TextLine"}

\* C11: a TextRegion or TextLine that has a Coords among its immediate
\* children before convert_page_xml, wherever it stands, has exactly as
\* many Coords children after it: no second Coords is added.
C11_NoSecondCoords ==
  Paired(Boxes) =>
    \A n \in 1..Len(InOrder(InputXml, Boxes)) :
      LET before ==
            CountChildren(InputXml, InOrder(InputXml, Boxes)[n], "Coords")
          after ==
            CountChildren(OutputXml, InOrder(OutputXml, Boxes)[n], "Coords")
      IN before > 0 => after = before

\* A step in which no call of convert_page_xml returned True
NoSuccess ==
  \A n \in Len(stdout) + 1..Len(stdout') : stdout'[n].msg # Success

\* C12: a call of convert_page_xml that does not return True neither
\* creates nor changes a file: the output file is written only with the
\* complete transformed document.
C12_NoPartialWrite ==
  [][NoSuccess => Written = {}]_vars

\* The atoms of the text directly inside e, in order: elem.text
TextContent(ev, e) ==
  LET inside(c) == /\ c > e
                   /\ c < EndOf(ev, e)
                   /\ ev[c].k = "text"
                   /\ ev[c].depth = ev[e].depth + 1
  IN [n \in 1..Len(SelectSeq([k \in 1..Len(ev) |-> k], inside)) |->
        ev[SelectSeq([k \in 1..Len(ev) |-> k], inside)[n]].name]

\* C13: a Unicode element whose text is not empty and not white space only
\* before convert_page_xml has the same text after it, character for
\* character.
C13_UnicodeTextPreserved ==
  Paired({"Unicode"}) =>
    \A n \in 1..Len(InOrder(InputXml, {"Unicode"})) :
      LET before ==
            TextContent(InputXml, InOrder(InputXml, {"Unicode"})[n])
          after ==
            TextContent(OutputXml, InOrder(OutputXml, {"Unicode"})[n])
      IN ~BlankText(InputXml, InOrder(InputXml, {"Unicode"})[n])
           => after = before

====
